---- MODULE Spec2Model ----
(***************************************************************************)
(* QR code identity and lifecycle management of the railway track-fitting  *)
(* backend: the request handlers of app/routers/qr_codes.py and            *)
(* app/routers/installations.py over the MongoDB collections qr_codes,     *)
(* fitting_installations and fitting_batches.                              *)
(*                                                                         *)
(* Every handler is an asyncio coroutine: the code between two awaited     *)
(* database calls runs without interruption, and another request may run   *)
(* at each await.  One action of the model is therefore one awaited        *)
(* database call together with the synchronous code that follows it up to  *)
(* the next await.  Document ids are opaque: a document's _id is its       *)
(* position in the collection, and a lookup by _id is equality on it.      *)
(***************************************************************************)
EXTENDS Integers, Sequences, FiniteSets, TLC

VARIABLES
    qr_codes,        \* collection qr_codes: sequence of documents, _id = index
    installations,   \* collection fitting_installations, _id = index
    batches,         \* collection fitting_batches: batch id -> document
    now,             \* int(time.time()): the wall clock in whole seconds
    req,             \* per request slot: the handler's position and locals
    faults,          \* number of injected infrastructure failures so far
    started,         \* number of requests received so far
    scan_logs,       \* collection qr_scan_logs, _id = index
    inspections,     \* collection inspections, _id = index
    batch_operations,  \* collection batch_operations, _id = index
    maintenance_records,  \* collection maintenance_records, _id = index
    call             \* the last direct call of a utility function and its result

vars == <<qr_codes, installations, batches, now, req, faults, started,
          scan_logs, inspections, batch_operations, call,
          maintenance_records>>

----------------------------------------------------------------------------
(* Bounds of the model *)

MaxCodes == 2       \* cap on the number of documents in qr_codes
MaxQty == 2         \* largest in-range quantity a request asks for
MaxTime == 1        \* the clock runs over 0..MaxTime
MaxFaults == 1      \* injected failures (database error, crash) per run
MaxRequests == 3    \* requests received per run
MaxLongRequests == 4  \* requests received per run of the longer scenarios
MaxInspections == 2 \* cap on the number of documents in inspections
MaxMaintenance == 2 \* cap on the number of documents in maintenance_records

(* Program constants *)

MaxQuantity == 10000      \* qr_codes.py:48

Procs == {1, 2}     \* two request slots: up to two requests in flight

\* the fitting batches that exist; "batch_id" is the id of the handler's
\* documented request
BatchIds == {"b1", "batch_id"}

\* Requests: every combination of the values a handler acts on, and one
\* request per validation rule that breaks it ("" a missing field, "bx" an
\* unknown batch id).

GoodGenerate == [role |-> "operator", batch |-> "b1", quantity |-> 1]
GenerateInputs ==
    {[GoodGenerate EXCEPT !.batch = b, !.quantity = q] :
        b \in BatchIds \cup {"bx"}, q \in 1..MaxQty}
    \cup {[GoodGenerate EXCEPT !.role = "viewer"],
          [GoodGenerate EXCEPT !.batch = ""],
          [GoodGenerate EXCEPT !.quantity = 0],
          [GoodGenerate EXCEPT !.quantity = MaxQuantity + 1]}

\* qr_id is a path parameter; printQualityScore in tenths, -2 when absent
GoodVerify == [role |-> "operator", qid |-> 1, status |-> "verified", score |-> -2]
VerifyInputs ==
    {[GoodVerify EXCEPT !.qid = q, !.status = v] :
        q \in 1..(MaxCodes + 1), v \in {"verified", "rejected", "needs_reprint"}}
    \cup {[GoodVerify EXCEPT !.role = "viewer"],
          [GoodVerify EXCEPT !.status = "printed"],
          [GoodVerify EXCEPT !.score = 9],
          [GoodVerify EXCEPT !.score = 11],
          [GoodVerify EXCEPT !.score = -1]}

\* the ids of the documents of collection zones; no modelled request writes it
ZoneIds == {"z1"}

\* qid 0 and the empty strings: the field is missing.  Coordinates: "none"
\* absent, "partial" lat or lng missing, else in or out of range
GoodInstall == [role |-> "operator", qid |-> 1, zone |-> "z1", track |-> "A-1",
                coords |-> "in_range"]
InstallInputs ==
    {[GoodInstall EXCEPT !.qid = q, !.coords = c] :
        q \in 1..(MaxCodes + 1), c \in {"none", "in_range"}}
    \cup {[GoodInstall EXCEPT !.role = "inspector"],
          [GoodInstall EXCEPT !.zone = "zx"],
          [GoodInstall EXCEPT !.qid = 0],
          [GoodInstall EXCEPT !.zone = ""],
          [GoodInstall EXCEPT !.track = ""],
          [GoodInstall EXCEPT !.coords = "partial"],
          [GoodInstall EXCEPT !.coords = "out_of_range"]}

valid_statuses == {"installed", "in_service", "maintenance_due", "replaced", "retired"}

GoodUpdate == [role |-> "operator", iid |-> 1, status |-> "in_service"]
UpdateInputs ==
    {[GoodUpdate EXCEPT !.iid = k, !.status = v] :
        k \in 1..(MaxCodes + 1), v \in valid_statuses}
    \cup {[GoodUpdate EXCEPT !.role = "inspector"],
          [GoodUpdate EXCEPT !.status = ""],
          [GoodUpdate EXCEPT !.status = "verified"]}

----------------------------------------------------------------------------
(* Pure functions *)

BatchNum(b) == CASE b = "b1" -> 1 [] b = "batch_id" -> 2 [] b = "bx" -> 3 [] OTHER -> 0

\* hashlib.md5(f"{batch}_{seq}_{timestamp}").hexdigest()[:8]: a deterministic
\* digest of the three values, cut to a fixed width (the largest TLC's
\* integers hold).
FpSpace == 2147483647 - 0
Md5Prefix(b, s, t) ==
    (BatchNum(b) * 1000003 + s * 7919 + t * 104729 + 12345) % FpSpace

\* generate_qr_code_data: f"QRTF_{batch}_{seq:06d}_{hash}".  The string is
\* determined by, and determines, its three variable parts.
generate_qr_code_data(b, s, t) ==
    [prefix |-> "QRTF", batch |-> b, seq |-> s, hash |-> Md5Prefix(b, s, t)]

check_permissions(role, perm) ==
    CASE role = "super_admin" -> TRUE
      [] role = "operator" -> perm \in {"qr_codes", "installations", "notifications"}
      [] role = "inspector" -> perm \in {"inspections", "maintenance_records",
                                          "qr_codes", "notifications"}
      [] OTHER -> FALSE

\* validate_gps_coordinates on the coordinate classes of InstallInputs
validate_gps_coordinates(c) == c = "in_range"

----------------------------------------------------------------------------
(* Code strings: a string is the sequence of its characters *)

MaxParts == 5       \* most underscore-separated parts of a string to validate
MaxSeq == 3         \* largest sequence number the generator is called with

HexChars == <<"0", "1", "2", "3", "4", "5", "6", "7", "8", "9",
              "a", "b", "c", "d", "e", "f">>
DecimalChars == {"0", "1", "2", "3", "4", "5", "6", "7", "8", "9"}

\* the characters of the batch ids of the model
BatchChars(b) ==
    CASE b = "b1" -> <<"b", "1">>
      [] b = "batch_id" -> <<"b", "a", "t", "c", "h", "_", "i", "d">>
      [] b = "bx" -> <<"b", "x">>
      [] OTHER -> <<>>

\* the digits of n >= 0 in the given base, most significant first
RECURSIVE ToBase(_, _)
ToBase(n, base) ==
    IF n < base THEN <<HexChars[n + 1]>>
    ELSE ToBase(n \div base, base) \o <<HexChars[(n % base) + 1]>>

\* "{:06d}": zeros on the left up to the width, never a cut
ZeroPad(str, width) ==
    IF Len(str) >= width THEN str
    ELSE [k \in 1..(width - Len(str)) |-> "0"] \o str

\* the return value of generate_qr_code_data:
\* f"QRTF_{fitting_batch_id}_{sequence_number:06d}_{hash_hex}"
CodeString(c) ==
    <<"Q", "R", "T", "F", "_">> \o BatchChars(c.batch) \o <<"_">>
        \o ZeroPad(ToBase(c.seq, 10), 6) \o <<"_">> \o ZeroPad(ToBase(c.hash, 16), 8)

\* data.startswith(pre)
str_startswith(data, pre) ==
    Len(data) >= Len(pre) /\ SubSeq(data, 1, Len(pre)) = pre

\* data.split("_"): the parts between the underscores, empty parts included
RECURSIVE str_split(_)
str_split(data) ==
    IF \A k \in 1..Len(data) : data[k] # "_" THEN <<data>>
    ELSE LET k == CHOOSE j \in 1..Len(data) :
                      data[j] = "_" /\ \A h \in 1..(j - 1) : data[h] # "_"
         IN <<SubSeq(data, 1, k - 1)>> \o str_split(SubSeq(data, k + 1, Len(data)))

\* str.isdigit(): at least one character, all of them digits
str_isdigit(str) == Len(str) > 0 /\ \A k \in 1..Len(str) : str[k] \in DecimalChars

\* int(str) of a string of decimal digits
RECURSIVE int_of(_)
int_of(str) ==
    IF Len(str) = 0 THEN 0
    ELSE 10 * int_of(SubSeq(str, 1, Len(str) - 1))
         + (CHOOSE d \in 0..9 : HexChars[d + 1] = str[Len(str)])

\* validation without the check of the hash part
validate_qr_code_dataMut(data) ==
    IF ~str_startswith(data, <<"Q", "R", "T", "F", "_">>) THEN FALSE
    ELSE LET parts == str_split(data)
         IN IF Len(parts) # 4 THEN FALSE
            ELSE ~(~str_isdigit(parts[3]) \/ Len(parts[3]) # 6)

validate_qr_code_data(data) ==
    IF ~str_startswith(data, <<"Q", "R", "T", "F", "_">>) THEN FALSE
    ELSE LET parts == str_split(data)
         IN IF Len(parts) # 4 THEN FALSE
            ELSE IF ~str_isdigit(parts[3]) \/ Len(parts[3]) # 6 THEN FALSE
            ELSE IF Len(parts[4]) # 8 THEN FALSE
            ELSE TRUE

\* the dict extract_qr_code_info returns; a ValueError inside is caught and
\* gives is_valid False
extract_qr_code_info(data) ==
    IF ~validate_qr_code_data(data)
    THEN [is_valid |-> FALSE, prefix |-> <<>>, batch_id |-> <<>>,
          sequence_number |-> -1, hash |-> <<>>]
    ELSE LET parts == str_split(data)
         IN [is_valid |-> TRUE, prefix |-> parts[1], batch_id |-> parts[2],
             sequence_number |-> int_of(parts[3]), hash |-> parts[4]]

\* parts to build strings from: none holds an underscore
PartPool ==
    {<<"Q", "R", "T", "F">>, <<"Q", "R", "T">>, <<>>, <<"b", "1">>,
     <<"0", "0", "0", "0", "0", "1">>, <<"0", "0", "0", "0", "1">>,
     <<"0", "0", "0", "0", "0", "a">>,
     <<"a", "b", "c", "d", "e", "f", "1", "2">>,
     <<"a", "b", "c", "d", "e", "f", "1">>}

\* "_".join(parts)
RECURSIVE str_join(_)
str_join(parts) ==
    IF Len(parts) = 1 THEN parts[1]
    ELSE parts[1] \o <<"_">> \o str_join(Tail(parts))

----------------------------------------------------------------------------
(* Storage layer *)

\* the collection without its unique index on qrCode
QrCodeIndexAllowsMut(code) == TRUE

\* unique index on qr_codes.qrCode (create_indexes)
QrCodeIndexAllows(code) == \A k \in 1..Len(qr_codes) : qr_codes[k].qrCode # code

\* the collection without its unique index on qrCodeId
InstallationIndexAllowsMut(qid) == TRUE

\* unique index on fitting_installations.qrCodeId (create_indexes)
InstallationIndexAllows(qid) ==
    \A k \in 1..Len(installations) : installations[k].qrCodeId # qid

QrExists(qid) == qid \in 1..Len(qr_codes)
InstExists(iid) == iid \in 1..Len(installations)

\* find_one({"qrCodeId": qid}) on fitting_installations
InstallationOf(qid) == {k \in 1..Len(installations) : installations[k].qrCodeId = qid}

\* find({"fittingBatchId": b}) on qr_codes: the ids of the batch's documents
CodesOfBatch(b) == {k \in 1..Len(qr_codes) : qr_codes[k].fittingBatchId = b}

\* the status of a QR code document, "" when there is none
QrStatus(qid) == IF QrExists(qid) THEN qr_codes[qid].status ELSE ""

\* an update that replaces the document: the sequence number is not kept
SetQrStatusMut(qid, s) ==
    IF QrExists(qid)
    THEN [qr_codes EXCEPT ![qid] = [@ EXCEPT !.status = s, !.sequenceNumber = 0]]
    ELSE qr_codes

\* update_one({"_id": qid}, {"$set": {"status": s}}) on qr_codes: no match, no change
SetQrStatus(qid, s) ==
    IF QrExists(qid) THEN [qr_codes EXCEPT ![qid].status = s] ELSE qr_codes

SetInstStatus(iid, s) ==
    IF InstExists(iid) THEN [installations EXCEPT ![iid].status = s] ELSE installations

----------------------------------------------------------------------------
(* Request slots *)

\* A slot holds the handler's position (pc) and locals: batch, quantity, i (the
\* loop index) and ts (the clock value the pending iteration read) of
\* generate-batch; qid, iid and status (the requested status) of the others;
\* the response once answered.  Two history fields serve the properties only:
\* had, the number of codes the batch had when generate-batch looked it up, and
\* prev, the statuses of the installation (which the handler holds in the
\* document it read) and of its QR code when updateStatus started.  made is
\* generate-batch's list generated_qr_codes: the ids of the documents the call
\* has inserted.  code and user are scan's path parameter and caller; looked
\* tells that the request has queried qr_codes by code string; coords is
\* install's installationCoordinates and zone its zoneId; insp and rec are the inspection id and
\* the recommendation of complete, ids the qrCodeIds of bulk-inspection; mid and
\* passed are the record id and the result of quality-check; filters, cand (the
\* qrCodeIds of the installations in the zone) and ids (the codes found) are
\* bulk-maintenance's.
NoResult == [code |-> 0, detail |-> ""]
NoFilters == [zoneId |-> "", status |-> ""]
NoPrev == [inst |-> "", qr |-> ""]
Idle == [op |-> "none", pc |-> "idle", batch |-> "", quantity |-> 0, i |-> 0,
         ts |-> 0, qid |-> 0, iid |-> 0, status |-> "", result |-> NoResult,
         had |-> 0, prev |-> NoPrev, made |-> {},
         code |-> <<>>, user |-> "", looked |-> FALSE, coords |-> "",
         zone |-> "", mid |-> 0, passed |-> "", filters |-> NoFilters, cand |-> {},
         insp |-> 0, rec |-> "", ids |-> <<>>]

\* a slot is free before its first request and once its request is answered
\* (the answer stays readable until the slot is taken again); a request is
\* taken by the first free slot, the slots being interchangeable
Free(p) == req[p].pc \in {"idle", "done"}
FreeSlot(p) == Free(p) /\ \A q \in Procs : Free(q) => ~(q < p)

\* the handler answers: its locals are gone, the slot keeps what the request
\* was and the response
Respond(p, r, code, detail) ==
    [r EXCEPT !.pc = "done", !.ts = 0, !.coords = "", !.zone = "",
              !.result = [code |-> code, detail |-> detail],
              !.prev = IF code = 200 THEN NoPrev ELSE r.prev,
              !.made = IF code = 200 THEN {} ELSE r.made]

\* the handler refuses the request before its first write: the slot keeps the
\* operation and the response
Reject(op, code, detail) ==
    [Idle EXCEPT !.op = op, !.pc = "done", !.result = [code |-> code, detail |-> detail]]

NoCall == [fn |-> "none"]

\* the batches the database holds: b1 of one fitting, still at the
\* manufacturer; batch_id of MaxQty fittings, already shipped
SeededQuantity(b) == IF b = "b1" THEN 1 ELSE MaxQty
SeededStatus(b) == IF b = "b1" THEN "manufactured" ELSE "shipped"

Init ==
    /\ qr_codes = <<>>
    /\ installations = <<>>
    /\ batches = [b \in BatchIds |->
                    [quantity |-> SeededQuantity(b), status |-> SeededStatus(b),
                     qrCodesGenerated |-> 0]]
    /\ now = 0
    /\ req = [p \in Procs |-> Idle]
    /\ faults = 0
    /\ started = 0
    /\ scan_logs = <<>>
    /\ inspections = <<>>
    /\ batch_operations = <<>>
    /\ call = NoCall
    /\ maintenance_records = <<>>

----------------------------------------------------------------------------
(* POST /api/qr-codes/generate-batch *)

\* the handler's "except Exception" branch: a generic 500 per handler
FailDetail(op) ==
    CASE op = "generate" -> "Failed to generate QR codes"
      [] op = "verify" -> "Failed to verify QR code"
      [] op = "install" -> "Failed to create installation"
      [] op = "update" -> "Failed to update installation status"
      [] op = "scan" -> "Failed to scan QR code"
      [] op = "inspect" -> "Failed to create inspection"
      [] op = "complete" -> "Failed to complete inspection"
      [] op = "bulk" -> "Failed to schedule bulk inspection"
      [] op = "maintain" -> "Failed to create maintenance record"
      [] op = "quality" -> "Failed to perform quality check"
      [] op = "bulk_maint" -> "Failed to schedule bulk maintenance"
      [] OTHER -> "Internal error"

\* quantity without its upper limit
QuantityInRangeMut(q) == q > 0

\* "quantity <= 0 or quantity > 10000" is refused
QuantityInRange(q) == q > 0 /\ q <= MaxQuantity

\* permission and field validation, then find_one on fitting_batches; the
\* first loop iteration reads the clock before its insert is awaited
GenStart(p) ==
    /\ FreeSlot(p)
    /\ started < MaxLongRequests
    /\ started' = started + 1
    /\ \E in \in GenerateInputs :
         LET b == in.batch
             q == in.quantity
             r == [Idle EXCEPT !.op = "generate", !.batch = b, !.quantity = q] IN
         req' = [req EXCEPT ![p] =
            IF ~check_permissions(in.role, "qr_codes")
            THEN Reject("generate", 403, "Insufficient permissions")
            ELSE IF b = ""
            THEN Reject("generate", 400, "Fitting batch ID is required")
            ELSE IF ~QuantityInRange(q)
            THEN [Reject("generate", 400, "Quantity must be between 1 and 10000")
                    EXCEPT !.batch = b, !.quantity = q]
            ELSE IF b \notin DOMAIN batches
            THEN [Reject("generate", 404, "Fitting batch not found")
                    EXCEPT !.batch = b, !.quantity = q]
            ELSE [r EXCEPT !.pc = "gen_insert", !.i = 0, !.ts = now,
                           !.had = Cardinality(CodesOfBatch(b))]]
    /\ UNCHANGED <<qr_codes, installations, batches, now, faults,
                   scan_logs, inspections, batch_operations, call,
                   maintenance_records>>

\* the document one loop iteration inserts
QrDoc(b, seq, t) ==
    [qrCode |-> generate_qr_code_data(b, seq, t), fittingBatchId |-> b,
     sequenceNumber |-> seq, status |-> "generated", lastScannedBy |-> ""]

\* numbering from the loop index itself
SequenceOfMut(i) == i

\* sequence number of loop iteration i (range(quantity) counts from 0)
SequenceOf(i) == i + 1

\* one iteration of "for i in range(quantity)": insert_one, which the unique
\* index on qrCode may refuse (DuplicateKeyError, caught as a generic 500);
\* then the next iteration reads the clock, or the loop ends
GenInsert(p) ==
    /\ req[p].pc = "gen_insert"
    /\ LET r == req[p]
           doc == QrDoc(r.batch, SequenceOf(r.i), r.ts)
       IN IF ~QrCodeIndexAllows(doc.qrCode)
          THEN /\ req' = [req EXCEPT ![p] = Respond(p, r, 500, FailDetail("generate"))]
               /\ UNCHANGED qr_codes
          ELSE /\ Len(qr_codes) < MaxCodes
               /\ qr_codes' = Append(qr_codes, doc)
               /\ req' = [req EXCEPT ![p] =
                    LET r2 == [r EXCEPT !.i = r.i + 1,
                                        !.made = r.made \cup {Len(qr_codes) + 1}]
                    IN IF r.i + 1 = r.quantity
                       THEN [r2 EXCEPT !.pc = "gen_batch"]
                       ELSE [r2 EXCEPT !.ts = now]]
    /\ UNCHANGED <<installations, batches, now, faults, started,
                   scan_logs, inspections, batch_operations, call,
                   maintenance_records>>

\* update_one on fitting_batches: qrCodesGenerated = quantity; 200
GenUpdateBatch(p) ==
    /\ req[p].pc = "gen_batch"
    /\ batches' = [batches EXCEPT ![req[p].batch].qrCodesGenerated = req[p].quantity]
    /\ req' = [req EXCEPT ![p] = Respond(p, req[p], 200, "ok")]
    /\ UNCHANGED <<qr_codes, installations, now, faults, started,
                   scan_logs, inspections, batch_operations, call,
                   maintenance_records>>

----------------------------------------------------------------------------
(* PUT /api/qr-codes/{qr_id}/verify *)

\* validation, then update_one({"_id": qr_id}, {"$set": update_data}): the
\* status is set to the requested verification status whatever it was
VerifyStart(p) ==
    /\ FreeSlot(p)
    /\ started < MaxLongRequests
    /\ started' = started + 1
    /\ \E in \in VerifyInputs :
         LET qid == in.qid
             vs == in.status
             score == in.score
             r == [Idle EXCEPT !.op = "verify", !.qid = qid, !.status = vs] IN
         IF ~check_permissions(in.role, "qr_codes")
         THEN /\ req' = [req EXCEPT ![p] = Reject("verify", 403, "Insufficient permissions")]
              /\ UNCHANGED qr_codes
         ELSE IF vs \notin {"verified", "rejected", "needs_reprint"}
         THEN /\ req' = [req EXCEPT ![p] = Reject("verify", 400, "Invalid verification status")]
              /\ UNCHANGED qr_codes
         ELSE IF score # -2 /\ (score < 0 \/ score > 10)
         THEN /\ req' = [req EXCEPT ![p] =
                    Reject("verify", 400, "Print quality score must be between 0 and 1")]
              /\ UNCHANGED qr_codes
         ELSE /\ qr_codes' = SetQrStatus(qid, vs)
              /\ req' = [req EXCEPT ![p] = [r EXCEPT !.pc = "ver_find"]]
    /\ UNCHANGED <<installations, batches, now, faults,
                   scan_logs, inspections, batch_operations, call,
                   maintenance_records>>

\* find_one({"_id": qr_id}); a missing document makes updated_qr_code.items()
\* raise, which the handler turns into its generic 500
VerifyFind(p) ==
    /\ req[p].pc = "ver_find"
    /\ req' = [req EXCEPT ![p] =
          IF QrExists(req[p].qid)
          THEN Respond(p, req[p], 200, "ok")
          ELSE Respond(p, req[p], 500, FailDetail("verify"))]
    /\ UNCHANGED <<qr_codes, installations, batches, now, faults, started,
                   scan_logs, inspections, batch_operations, call,
                   maintenance_records>>

----------------------------------------------------------------------------
(* POST /api/installations *)

\* validation, then find_one on qr_codes: only the document's existence is
\* looked at
InstallStart(p) ==
    /\ FreeSlot(p)
    /\ started < MaxLongRequests
    /\ started' = started + 1
    /\ \E in \in InstallInputs :
         LET qid == in.qid
             zone == in.zone
             track == in.track
             c == in.coords
             r == [Idle EXCEPT !.op = "install", !.qid = qid, !.coords = c,
                               !.zone = zone] IN
         req' = [req EXCEPT ![p] =
            IF ~check_permissions(in.role, "installations")
            THEN Reject("install", 403, "Insufficient permissions")
            ELSE IF qid = 0
            THEN Reject("install", 400, "QR code ID is required")
            ELSE IF zone = ""
            THEN Reject("install", 400, "Zone ID is required")
            ELSE IF track = ""
            THEN Reject("install", 400, "Track section is required")
            ELSE IF c = "partial"
            THEN Reject("install", 500, FailDetail("install"))
            ELSE IF c # "none" /\ ~validate_gps_coordinates(c)
            THEN Reject("install", 400, "Invalid GPS coordinates")
            ELSE IF ~QrExists(qid)
            THEN Reject("install", 404, "QR code not found")
            ELSE [r EXCEPT !.pc = "inst_check"]]
    /\ UNCHANGED <<qr_codes, installations, batches, now, faults,
                   scan_logs, inspections, batch_operations, call,
                   maintenance_records>>

\* find_one({"qrCodeId": qr_code_id}) on fitting_installations
InstallCheck(p) ==
    /\ req[p].pc = "inst_check"
    /\ req' = [req EXCEPT ![p] =
          IF InstallationOf(req[p].qid) # {}
          THEN Respond(p, req[p], 400, "QR code is already installed")
          ELSE [req[p] EXCEPT !.pc = "inst_insert"]]
    /\ UNCHANGED <<qr_codes, installations, batches, now, faults, started,
                   scan_logs, inspections, batch_operations, call,
                   maintenance_records>>

\* the installation document the handler builds
InstallationDoc(qid, c, z) ==
    [qrCodeId |-> qid, zoneId |-> z, status |-> "installed",
     installationCoordinates |-> c]

\* insert_one on fitting_installations, which the unique index on qrCodeId may
\* refuse (DuplicateKeyError, caught as the generic 500)
InstallInsert(p) ==
    /\ req[p].pc = "inst_insert"
    /\ IF ~InstallationIndexAllows(req[p].qid)
       THEN /\ req' = [req EXCEPT ![p] = Respond(p, req[p], 500, FailDetail("install"))]
            /\ UNCHANGED installations
       ELSE /\ installations' = Append(installations,
                        InstallationDoc(req[p].qid, req[p].coords, req[p].zone))
            /\ req' = [req EXCEPT ![p] =
                  [req[p] EXCEPT !.pc = "inst_qr", !.iid = Len(installations) + 1]]
    /\ UNCHANGED <<qr_codes, batches, now, faults, started,
                   scan_logs, inspections, batch_operations, call,
                   maintenance_records>>

\* update_one on qr_codes: status = installed
InstallUpdateQr(p) ==
    /\ req[p].pc = "inst_qr"
    /\ qr_codes' = SetQrStatus(req[p].qid, "installed")
    /\ req' = [req EXCEPT ![p] = [req[p] EXCEPT !.pc = "inst_find"]]
    /\ UNCHANGED <<installations, batches, now, faults, started,
                   scan_logs, inspections, batch_operations, call,
                   maintenance_records>>

\* find_one on the created installation; 200
InstallFind(p) ==
    /\ req[p].pc = "inst_find"
    /\ req' = [req EXCEPT ![p] =
          IF InstExists(req[p].iid)
          THEN Respond(p, req[p], 200, "ok")
          ELSE Respond(p, req[p], 500, FailDetail("install"))]
    /\ UNCHANGED <<qr_codes, installations, batches, now, faults, started,
                   scan_logs, inspections, batch_operations, call,
                   maintenance_records>>

----------------------------------------------------------------------------
(* PUT /api/installations/{installation_id}/status *)

\* validation, then find_one on fitting_installations; the handler keeps the
\* document it read (its qrCodeId is used two awaits later)
UpdateStart(p) ==
    /\ FreeSlot(p)
    /\ started < MaxLongRequests
    /\ started' = started + 1
    /\ \E in \in UpdateInputs :
         LET iid == in.iid
             ns == in.status
             r == [Idle EXCEPT !.op = "update", !.iid = iid, !.status = ns] IN
         req' = [req EXCEPT ![p] =
            IF ~check_permissions(in.role, "installations")
            THEN Reject("update", 403, "Insufficient permissions")
            ELSE IF ns = ""
            THEN Reject("update", 400, "Status is required")
            ELSE IF ns \notin valid_statuses
            THEN Reject("update", 400, "Invalid status")
            ELSE IF ~InstExists(iid)
            THEN Reject("update", 404, "Installation not found")
            ELSE [r EXCEPT !.pc = "upd_inst", !.qid = installations[iid].qrCodeId,
                           !.prev = [inst |-> installations[iid].status,
                                     qr |-> QrStatus(installations[iid].qrCodeId)]]]
    /\ UNCHANGED <<qr_codes, installations, batches, now, faults,
                   scan_logs, inspections, batch_operations, call,
                   maintenance_records>>

\* update_one on fitting_installations: status = new_status
UpdateInstallation(p) ==
    /\ req[p].pc = "upd_inst"
    /\ installations' = SetInstStatus(req[p].iid, req[p].status)
    /\ req' = [req EXCEPT ![p] = [req[p] EXCEPT !.pc = "upd_qr"]]
    /\ UNCHANGED <<qr_codes, batches, now, faults, started,
                   scan_logs, inspections, batch_operations, call,
                   maintenance_records>>

\* update_one on qr_codes: status = new_status
UpdateQr(p) ==
    /\ req[p].pc = "upd_qr"
    /\ qr_codes' = SetQrStatus(req[p].qid, req[p].status)
    /\ req' = [req EXCEPT ![p] = [req[p] EXCEPT !.pc = "upd_find"]]
    /\ UNCHANGED <<installations, batches, now, faults, started,
                   scan_logs, inspections, batch_operations, call,
                   maintenance_records>>

\* find_one on the updated installation; 200
UpdateFind(p) ==
    /\ req[p].pc = "upd_find"
    /\ req' = [req EXCEPT ![p] =
          IF InstExists(req[p].iid)
          THEN Respond(p, req[p], 200, "ok")
          ELSE Respond(p, req[p], 500, FailDetail("update"))]
    /\ UNCHANGED <<qr_codes, installations, batches, now, faults, started,
                   scan_logs, inspections, batch_operations, call,
                   maintenance_records>>

----------------------------------------------------------------------------
(* POST /api/qr-codes/{qr_code}/scan *)

\* the string of the repository's test of an invalid scan, and a well-formed
\* string no document has
MalformedCode == <<"I", "N", "V", "A", "L", "I", "D", "_", "Q", "R">>
UnknownCode == CodeString([batch |-> "bx", seq |-> 1, hash |-> 15])

\* find_one({"qrCode": code}) on qr_codes: the ids of the matching documents
CodeLookup(code) == {k \in 1..Len(qr_codes) : CodeString(qr_codes[k].qrCode) = code}

GoodScan == [role |-> "operator", user |-> "u1", code |-> MalformedCode]
ScanInputs ==
    {[GoodScan EXCEPT !.user = u, !.code = c] :
        u \in {"u1", "u2"},
        c \in {CodeString(qr_codes[k].qrCode) : k \in 1..Len(qr_codes)}
               \cup {MalformedCode, UnknownCode}}
    \cup {[GoodScan EXCEPT !.role = "viewer"]}

\* permission check, then find_one on qr_codes by the code string as received
ScanStart(p) ==
    /\ FreeSlot(p)
    /\ started < MaxLongRequests
    /\ started' = started + 1
    /\ \E in \in ScanInputs :
         LET r == [Idle EXCEPT !.op = "scan", !.code = in.code, !.looked = TRUE] IN
         req' = [req EXCEPT ![p] =
            IF ~check_permissions(in.role, "qr_codes")
            THEN Reject("scan", 403, "Insufficient permissions")
            ELSE IF CodeLookup(in.code) = {}
            THEN [r EXCEPT !.pc = "done",
                           !.result = [code |-> 404, detail |-> "QR code not found"]]
            ELSE [r EXCEPT !.pc = "scan_log", !.user = in.user,
                           !.qid = CHOOSE k \in CodeLookup(in.code) : TRUE]]
    /\ UNCHANGED <<qr_codes, installations, batches, now, faults,
                   scan_logs, inspections, batch_operations, call,
                   maintenance_records>>

\* insert_one on qr_scan_logs
ScanInsertLog(p) ==
    /\ req[p].pc = "scan_log"
    /\ scan_logs' = Append(scan_logs, [qrCodeId |-> req[p].qid, scannedBy |-> req[p].user])
    /\ req' = [req EXCEPT ![p] = [req[p] EXCEPT !.pc = "scan_qr"]]
    /\ UNCHANGED <<qr_codes, installations, batches, now, faults, started,
                   inspections, batch_operations, call, maintenance_records>>

\* a scan that also puts the code in service
SetLastScanMut(qid, user) ==
    [qr_codes EXCEPT ![qid].lastScannedBy = user, ![qid].status = "in_service"]

\* {"$set": {"lastScannedAt": ..., "lastScannedBy": user, "updatedAt": ...}}
SetLastScan(qid, user) == [qr_codes EXCEPT ![qid].lastScannedBy = user]

\* update_one on qr_codes: lastScannedAt, lastScannedBy; 200
ScanUpdateQr(p) ==
    /\ req[p].pc = "scan_qr"
    /\ qr_codes' = SetLastScan(req[p].qid, req[p].user)
    /\ req' = [req EXCEPT ![p] = Respond(p, req[p], 200, "ok")]
    /\ UNCHANGED <<installations, batches, now, faults, started,
                   scan_logs, inspections, batch_operations, call,
                   maintenance_records>>

----------------------------------------------------------------------------
(* POST /api/inspections *)

InspExists(n) == n \in 1..Len(inspections)

GoodInspect == [role |-> "inspector", qid |-> 1]
InspectInputs ==
    {[GoodInspect EXCEPT !.qid = q] : q \in 1..(MaxCodes + 1)}
    \cup {[GoodInspect EXCEPT !.role = "operator"],
          [GoodInspect EXCEPT !.qid = 0]}

\* validation, then find_one on qr_codes
InspectStart(p) ==
    /\ FreeSlot(p)
    /\ started < MaxLongRequests
    /\ started' = started + 1
    /\ \E in \in InspectInputs :
         LET r == [Idle EXCEPT !.op = "inspect", !.qid = in.qid] IN
         req' = [req EXCEPT ![p] =
            IF ~check_permissions(in.role, "inspections")
            THEN Reject("inspect", 403, "Insufficient permissions")
            ELSE IF in.qid = 0
            THEN Reject("inspect", 400, "QR code ID is required")
            ELSE IF ~QrExists(in.qid)
            THEN [Reject("inspect", 404, "QR code not found") EXCEPT !.qid = in.qid]
            ELSE [r EXCEPT !.pc = "insp_insert"]]
    /\ UNCHANGED <<qr_codes, installations, batches, now, faults,
                   scan_logs, inspections, batch_operations, call,
                   maintenance_records>>

\* the inspection document create_inspection builds
InspectionDoc(qid) == [qrCodeId |-> qid, status |-> "in_progress", recommendation |-> ""]

\* insert_one on inspections
InspectInsert(p) ==
    /\ req[p].pc = "insp_insert"
    /\ Len(inspections) < MaxInspections
    /\ inspections' = Append(inspections, InspectionDoc(req[p].qid))
    /\ req' = [req EXCEPT ![p] =
          [req[p] EXCEPT !.pc = "insp_find", !.insp = Len(inspections) + 1]]
    /\ UNCHANGED <<qr_codes, installations, batches, now, faults, started,
                   scan_logs, batch_operations, call, maintenance_records>>

\* find_one on the created inspection; 200
InspectFind(p) ==
    /\ req[p].pc = "insp_find"
    /\ req' = [req EXCEPT ![p] = Respond(p, req[p], 200, "ok")]
    /\ UNCHANGED <<qr_codes, installations, batches, now, faults, started,
                   scan_logs, inspections, batch_operations, call,
                   maintenance_records>>

----------------------------------------------------------------------------
(* PUT /api/inspections/{inspection_id}/complete *)

valid_recommendations == {"pass", "fail", "conditional_pass", "needs_attention"}

\* due: nextInspectionDue is "none" absent, "valid" or "invalid" an ISO date
GoodComplete == [role |-> "inspector", insp |-> 1, rec |-> "pass", due |-> "valid"]
CompleteInputs ==
    {[GoodComplete EXCEPT !.insp = n, !.rec = v] :
        n \in 1..(MaxInspections + 1), v \in {"pass", "fail"}}
    \cup {[GoodComplete EXCEPT !.role = "operator"],
          [GoodComplete EXCEPT !.rec = ""],
          [GoodComplete EXCEPT !.rec = "maybe"],
          [GoodComplete EXCEPT !.due = "none"],
          [GoodComplete EXCEPT !.due = "invalid"]}

\* validation, then find_one on inspections; the status is checked on the
\* document read, and the date is parsed, before the update is awaited
CompleteStart(p) ==
    /\ FreeSlot(p)
    /\ started < MaxLongRequests
    /\ started' = started + 1
    /\ \E in \in CompleteInputs :
         LET r == [Idle EXCEPT !.op = "complete", !.insp = in.insp, !.rec = in.rec] IN
         req' = [req EXCEPT ![p] =
            IF ~check_permissions(in.role, "inspections")
            THEN Reject("complete", 403, "Insufficient permissions")
            ELSE IF in.rec = ""
            THEN Reject("complete", 400, "Recommendation is required")
            ELSE IF in.rec \notin valid_recommendations
            THEN Reject("complete", 400, "Invalid recommendation")
            ELSE IF ~InspExists(in.insp)
            THEN [Reject("complete", 404, "Inspection not found") EXCEPT !.insp = in.insp]
            ELSE IF inspections[in.insp].status # "in_progress"
            THEN [Reject("complete", 400, "Inspection is not in progress")
                    EXCEPT !.insp = in.insp, !.rec = in.rec]
            ELSE IF in.due = "invalid"
            THEN Reject("complete", 400, "Invalid next inspection due date format")
            ELSE [r EXCEPT !.pc = "comp_update"]]
    /\ UNCHANGED <<qr_codes, installations, batches, now, faults,
                   scan_logs, inspections, batch_operations, call,
                   maintenance_records>>

\* update_one on inspections: status = completed, recommendation
CompleteUpdate(p) ==
    /\ req[p].pc = "comp_update"
    /\ inspections' = [inspections EXCEPT ![req[p].insp].status = "completed",
                                          ![req[p].insp].recommendation = req[p].rec]
    /\ req' = [req EXCEPT ![p] = [req[p] EXCEPT !.pc = "comp_find"]]
    /\ UNCHANGED <<qr_codes, installations, batches, now, faults, started,
                   scan_logs, batch_operations, call, maintenance_records>>

\* find_one on the updated inspection; 200
CompleteFind(p) ==
    /\ req[p].pc = "comp_find"
    /\ req' = [req EXCEPT ![p] = Respond(p, req[p], 200, "ok")]
    /\ UNCHANGED <<qr_codes, installations, batches, now, faults, started,
                   scan_logs, inspections, batch_operations, call,
                   maintenance_records>>

----------------------------------------------------------------------------
(* POST /api/batch/bulk-inspection *)

\* date: scheduledDate is "none" absent, "valid" or "invalid" an ISO date
GoodBulk == [role |-> "super_admin", ids |-> <<1>>, type |-> "routine", date |-> "valid"]
BulkInputs ==
    {[GoodBulk EXCEPT !.ids = l] : l \in {<<1>>, <<1, 2>>, <<MaxCodes + 1>>}}
    \cup {[GoodBulk EXCEPT !.role = "inspector"],
          [GoodBulk EXCEPT !.ids = <<>>],
          [GoodBulk EXCEPT !.type = ""],
          [GoodBulk EXCEPT !.date = "none"],
          [GoodBulk EXCEPT !.date = "invalid"]}

\* validation only: no collection is read before the first insert
BulkStart(p) ==
    /\ FreeSlot(p)
    /\ started < MaxLongRequests
    /\ started' = started + 1
    /\ \E in \in BulkInputs :
         LET r == [Idle EXCEPT !.op = "bulk", !.ids = in.ids] IN
         req' = [req EXCEPT ![p] =
            IF ~check_permissions(in.role, "batch_operations")
            THEN Reject("bulk", 403, "Insufficient permissions")
            ELSE IF in.ids = <<>>
            THEN Reject("bulk", 400, "QR code IDs are required")
            ELSE IF in.type = ""
            THEN Reject("bulk", 400, "Inspection type is required")
            ELSE IF in.date = "none"
            THEN Reject("bulk", 400, "Scheduled date is required")
            ELSE IF in.date = "invalid"
            THEN Reject("bulk", 400, "Invalid scheduled date format")
            ELSE [r EXCEPT !.pc = "bulk_insert", !.i = 1]]
    /\ UNCHANGED <<qr_codes, installations, batches, now, faults,
                   scan_logs, inspections, batch_operations, call,
                   maintenance_records>>

\* the inspection document bulk_inspection builds
ScheduledDoc(qid) == [qrCodeId |-> qid, status |-> "scheduled", recommendation |-> ""]

\* one iteration of "for qr_code_id in qr_code_ids": insert_one on inspections
BulkInsert(p) ==
    /\ req[p].pc = "bulk_insert"
    /\ Len(inspections) < MaxInspections
    /\ inspections' = Append(inspections, ScheduledDoc(req[p].ids[req[p].i]))
    /\ req' = [req EXCEPT ![p] =
          IF req[p].i = Len(req[p].ids)
          THEN [req[p] EXCEPT !.pc = "bulk_batch"]
          ELSE [req[p] EXCEPT !.i = req[p].i + 1]]
    /\ UNCHANGED <<qr_codes, installations, batches, now, faults, started,
                   scan_logs, batch_operations, call, maintenance_records>>

\* insert_one on batch_operations; 200
BulkBatchRecord(p) ==
    /\ req[p].pc = "bulk_batch"
    /\ batch_operations' = Append(batch_operations,
            [operationType |-> "bulk_inspection", totalItems |-> Len(req[p].ids)])
    /\ req' = [req EXCEPT ![p] = Respond(p, req[p], 200, "ok")]
    /\ UNCHANGED <<qr_codes, installations, batches, now, faults, started,
                   scan_logs, inspections, call, maintenance_records>>

----------------------------------------------------------------------------
(* POST /api/maintenance-records *)

MaintExists(n) == n \in 1..Len(maintenance_records)

\* work "": workDescription is missing
GoodMaintain == [role |-> "inspector", qid |-> 1, type |-> "corrective", work |-> "w"]
MaintainInputs ==
    {[GoodMaintain EXCEPT !.qid = q, !.type = t] :
        q \in 1..(MaxCodes + 1), t \in {"corrective", "preventive"}}
    \cup {[GoodMaintain EXCEPT !.role = "operator"],
          [GoodMaintain EXCEPT !.qid = 0],
          [GoodMaintain EXCEPT !.work = ""]}

\* the maintenance document create_maintenance_record builds
MaintenanceDoc(qid, type) ==
    [qrCodeId |-> qid, status |-> "completed",
     qualityCheckRequired |-> (type \in {"corrective", "emergency"}),
     qualityCheckPassed |-> "none"]

\* validation, then find_one on qr_codes; the document is built before the
\* insert is awaited
MaintainStart(p) ==
    /\ FreeSlot(p)
    /\ started < MaxLongRequests
    /\ started' = started + 1
    /\ \E in \in MaintainInputs :
         LET r == [Idle EXCEPT !.op = "maintain", !.qid = in.qid, !.status = in.type] IN
         req' = [req EXCEPT ![p] =
            IF ~check_permissions(in.role, "maintenance_records")
            THEN Reject("maintain", 403, "Insufficient permissions")
            ELSE IF in.qid = 0
            THEN Reject("maintain", 400, "QR code ID is required")
            ELSE IF in.work = ""
            THEN Reject("maintain", 400, "Work description is required")
            ELSE IF ~QrExists(in.qid)
            THEN [Reject("maintain", 404, "QR code not found") EXCEPT !.qid = in.qid]
            ELSE [r EXCEPT !.pc = "maint_insert"]]
    /\ UNCHANGED <<qr_codes, installations, batches, now, faults, scan_logs,
                   inspections, batch_operations, maintenance_records, call>>

\* insert_one on maintenance_records
MaintainInsert(p) ==
    /\ req[p].pc = "maint_insert"
    /\ Len(maintenance_records) < MaxMaintenance
    /\ maintenance_records' =
          Append(maintenance_records, MaintenanceDoc(req[p].qid, req[p].status))
    /\ req' = [req EXCEPT ![p] =
          [req[p] EXCEPT !.pc = "maint_find", !.mid = Len(maintenance_records) + 1]]
    /\ UNCHANGED <<qr_codes, installations, batches, now, faults, started,
                   scan_logs, inspections, batch_operations, call>>

\* find_one on the created record; 200
MaintainFind(p) ==
    /\ req[p].pc = "maint_find"
    /\ req' = [req EXCEPT ![p] = Respond(p, req[p], 200, "ok")]
    /\ UNCHANGED <<qr_codes, installations, batches, now, faults, started, scan_logs,
                   inspections, batch_operations, maintenance_records, call>>

----------------------------------------------------------------------------
(* PUT /api/maintenance-records/{maintenance_id}/quality-check *)

\* passed "none": qualityCheckPassed is missing; due as for complete
GoodQuality == [role |-> "inspector", mid |-> 1, passed |-> "true", due |-> "valid"]
QualityInputs ==
    {[GoodQuality EXCEPT !.mid = n, !.passed = v] :
        n \in 1..(MaxMaintenance + 1), v \in {"true", "false"}}
    \cup {[GoodQuality EXCEPT !.role = "operator"],
          [GoodQuality EXCEPT !.passed = "none"],
          [GoodQuality EXCEPT !.due = "none"],
          [GoodQuality EXCEPT !.due = "invalid"]}

\* validation, then find_one on maintenance_records
QualityStart(p) ==
    /\ FreeSlot(p)
    /\ started < MaxLongRequests
    /\ started' = started + 1
    /\ \E in \in QualityInputs :
         LET r == [Idle EXCEPT !.op = "quality", !.mid = in.mid, !.passed = in.passed] IN
         req' = [req EXCEPT ![p] =
            IF ~check_permissions(in.role, "maintenance_records")
            THEN Reject("quality", 403, "Insufficient permissions")
            ELSE IF in.passed = "none"
            THEN Reject("quality", 400, "Quality check result is required")
            ELSE IF ~MaintExists(in.mid)
            THEN [Reject("quality", 404, "Maintenance record not found")
                    EXCEPT !.mid = in.mid]
            ELSE IF ~maintenance_records[in.mid].qualityCheckRequired
            THEN [Reject("quality", 400,
                         "Quality check not required for this maintenance record")
                    EXCEPT !.mid = in.mid]
            ELSE IF in.due = "invalid"
            THEN Reject("quality", 400, "Invalid next maintenance due date format")
            ELSE [r EXCEPT !.pc = "qual_update"]]
    /\ UNCHANGED <<qr_codes, installations, batches, now, faults, scan_logs,
                   inspections, batch_operations, maintenance_records, call>>

\* update_one on maintenance_records: qualityCheckPassed
QualityUpdate(p) ==
    /\ req[p].pc = "qual_update"
    /\ maintenance_records' =
          [maintenance_records EXCEPT ![req[p].mid].qualityCheckPassed = req[p].passed]
    /\ req' = [req EXCEPT ![p] = [req[p] EXCEPT !.pc = "qual_find"]]
    /\ UNCHANGED <<qr_codes, installations, batches, now, faults, started,
                   scan_logs, inspections, batch_operations, call>>

\* find_one on the updated record; 200
QualityFind(p) ==
    /\ req[p].pc = "qual_find"
    /\ req' = [req EXCEPT ![p] = Respond(p, req[p], 200, "ok")]
    /\ UNCHANGED <<qr_codes, installations, batches, now, faults, started, scan_logs,
                   inspections, batch_operations, maintenance_records, call>>

----------------------------------------------------------------------------
(* POST /api/batch/bulk-maintenance *)

\* the elements of a set of ids in ascending order
RECURSIVE Ascending(_)
Ascending(S) ==
    IF S = {} THEN <<>>
    ELSE LET m == CHOOSE x \in S : \A y \in S : x <= y
         IN <<m>> \o Ascending(S \ {m})

\* filters: "" is an absent filter; the divisionId and stationId filters narrow
\* the codes the way zoneId does and are left absent
GoodBulkMaint == [role |-> "super_admin", filters |-> NoFilters,
                  type |-> "preventive", date |-> "valid"]
BulkMaintInputs ==
    {[GoodBulkMaint EXCEPT !.filters = [zoneId |-> z, status |-> v]] :
        z \in {"", "z1"}, v \in {"", "generated", "maintenance_due"}}
    \cup {[GoodBulkMaint EXCEPT !.role = "inspector"],
          [GoodBulkMaint EXCEPT !.type = ""],
          [GoodBulkMaint EXCEPT !.date = "none"],
          [GoodBulkMaint EXCEPT !.date = "invalid"]}

\* validation; with a zoneId filter the next call is find on
\* fitting_installations, else find on qr_codes
BulkMaintStart(p) ==
    /\ FreeSlot(p)
    /\ started < MaxLongRequests
    /\ started' = started + 1
    /\ \E in \in BulkMaintInputs :
         LET r == [Idle EXCEPT !.op = "bulk_maint", !.filters = in.filters] IN
         req' = [req EXCEPT ![p] =
            IF ~check_permissions(in.role, "batch_operations")
            THEN Reject("bulk_maint", 403, "Insufficient permissions")
            ELSE IF in.type = ""
            THEN Reject("bulk_maint", 400, "Maintenance type is required")
            ELSE IF in.date = "none"
            THEN Reject("bulk_maint", 400, "Scheduled date is required")
            ELSE IF in.date = "invalid"
            THEN Reject("bulk_maint", 400, "Invalid scheduled date format")
            ELSE IF in.filters.zoneId # ""
            THEN [r EXCEPT !.pc = "bm_zone"]
            ELSE [r EXCEPT !.pc = "bm_find"]]
    /\ UNCHANGED <<qr_codes, installations, batches, now, faults, scan_logs,
                   inspections, batch_operations, maintenance_records, call>>

\* find({"zoneId": ...}) on fitting_installations: the qrCodeIds of the zone
BulkMaintZone(p) ==
    /\ req[p].pc = "bm_zone"
    /\ req' = [req EXCEPT ![p] =
          [req[p] EXCEPT !.pc = "bm_find",
                         !.cand = {installations[k].qrCodeId :
                                     k \in {j \in 1..Len(installations) :
                                         installations[j].zoneId = req[p].filters.zoneId}}]]
    /\ UNCHANGED <<qr_codes, installations, batches, now, faults, started, scan_logs,
                   inspections, batch_operations, maintenance_records, call>>

\* find(qr_query) on qr_codes; no code found is answered 200 with no batch
BulkMaintFind(p) ==
    /\ req[p].pc = "bm_find"
    /\ LET f == req[p].filters
           found == {k \in 1..Len(qr_codes) :
                        /\ f.zoneId # "" => k \in req[p].cand
                        /\ f.status # "" => qr_codes[k].status = f.status}
       IN req' = [req EXCEPT ![p] =
            IF found = {}
            THEN Respond(p, req[p], 200, "ok")
            ELSE [req[p] EXCEPT !.pc = "bm_insert", !.ids = Ascending(found), !.i = 1]]
    /\ UNCHANGED <<qr_codes, installations, batches, now, faults, started, scan_logs,
                   inspections, batch_operations, maintenance_records, call>>

\* the maintenance document bulk_maintenance builds: it has no
\* qualityCheckRequired, which quality-check reads as False
ScheduledMaintenanceDoc(qid) ==
    [qrCodeId |-> qid, status |-> "scheduled", qualityCheckRequired |-> FALSE,
     qualityCheckPassed |-> "none"]

\* one iteration of "for qr_code in qr_codes": insert_one on maintenance_records
BulkMaintInsert(p) ==
    /\ req[p].pc = "bm_insert"
    /\ Len(maintenance_records) < MaxMaintenance
    /\ maintenance_records' =
          Append(maintenance_records, ScheduledMaintenanceDoc(req[p].ids[req[p].i]))
    /\ req' = [req EXCEPT ![p] =
          IF req[p].i = Len(req[p].ids)
          THEN [req[p] EXCEPT !.pc = "bm_batch"]
          ELSE [req[p] EXCEPT !.i = req[p].i + 1]]
    /\ UNCHANGED <<qr_codes, installations, batches, now, faults, started,
                   scan_logs, inspections, batch_operations, call>>

\* insert_one on batch_operations; 200
BulkMaintBatchRecord(p) ==
    /\ req[p].pc = "bm_batch"
    /\ batch_operations' = Append(batch_operations,
            [operationType |-> "bulk_maintenance", totalItems |-> Len(req[p].ids)])
    /\ req' = [req EXCEPT ![p] = Respond(p, req[p], 200, "ok")]
    /\ UNCHANGED <<qr_codes, installations, batches, now, faults, started,
                   scan_logs, inspections, maintenance_records, call>>

----------------------------------------------------------------------------
(* Environment *)

\* the wall clock reaches the next second
Tick ==
    /\ now < MaxTime
    /\ now' = now + 1
    /\ UNCHANGED <<qr_codes, installations, batches, req, faults, started,
                   scan_logs, inspections, batch_operations, call,
                   maintenance_records>>

InFlight(p) == ~Free(p)

\* the awaited call raises (database error or timeout, image rendering error):
\* the handler's "except Exception" answers its generic 500, and whatever was
\* written before stays written
Fail(p) ==
    /\ InFlight(p)
    /\ faults < MaxFaults
    /\ faults' = faults + 1
    /\ req' = [req EXCEPT ![p] = Respond(p, req[p], 500, FailDetail(req[p].op))]
    /\ UNCHANGED <<qr_codes, installations, batches, now, started,
                   scan_logs, inspections, batch_operations, call,
                   maintenance_records>>

----------------------------------------------------------------------------
(* Direct calls of the code-string utilities *)

\* extract_qr_code_info applied to what generate_qr_code_data returns for a
\* batch generation is accepted for
CallExtract ==
    /\ call = NoCall
    /\ \E b \in DOMAIN batches, seq \in 1..MaxSeq :
         call' = [fn |-> "extract", batch |-> b, seq |-> seq,
                  out |-> extract_qr_code_info(
                              CodeString(generate_qr_code_data(b, seq, now)))]
    /\ UNCHANGED <<qr_codes, installations, batches, now, req, faults, started,
                   scan_logs, inspections, batch_operations,
                   maintenance_records>>

\* validate_qr_code_data applied to a string of 1..MaxParts parts
CallValidate ==
    /\ call = NoCall
    /\ \E n \in 1..MaxParts : \E parts \in [1..n -> PartPool] :
         call' = [fn |-> "validate", parts |-> parts,
                  out |-> validate_qr_code_data(str_join(parts))]
    /\ UNCHANGED <<qr_codes, installations, batches, now, req, faults, started,
                   scan_logs, inspections, batch_operations,
                   maintenance_records>>

----------------------------------------------------------------------------
(* Specifications *)

\* the specifications below take MaxRequests requests per run
Budget == started < MaxRequests

Next ==
    \/ \E p \in Procs : Budget /\ GenStart(p)
    \/ \E p \in Procs : GenInsert(p)
    \/ \E p \in Procs : GenUpdateBatch(p)
    \/ \E p \in Procs : Budget /\ VerifyStart(p)
    \/ \E p \in Procs : VerifyFind(p)
    \/ \E p \in Procs : Budget /\ InstallStart(p)
    \/ \E p \in Procs : InstallCheck(p)
    \/ \E p \in Procs : InstallInsert(p)
    \/ \E p \in Procs : InstallUpdateQr(p)
    \/ \E p \in Procs : InstallFind(p)
    \/ \E p \in Procs : Budget /\ UpdateStart(p)
    \/ \E p \in Procs : UpdateInstallation(p)
    \/ \E p \in Procs : UpdateQr(p)
    \/ \E p \in Procs : UpdateFind(p)
    \/ \E p \in Procs : Fail(p)
    \/ Tick

\* requests overlap freely: every interleaving of the handlers' awaits
Spec == Init /\ [][Next]_vars

\* no other request is in flight while p runs
Alone(p) == \A q \in Procs \ {p} : Free(q)

SeqNext ==
    \/ \E p \in Procs : Alone(p) /\ Budget /\ GenStart(p)
    \/ \E p \in Procs : Alone(p) /\ GenInsert(p)
    \/ \E p \in Procs : Alone(p) /\ GenUpdateBatch(p)
    \/ \E p \in Procs : Alone(p) /\ Budget /\ VerifyStart(p)
    \/ \E p \in Procs : Alone(p) /\ VerifyFind(p)
    \/ \E p \in Procs : Alone(p) /\ Budget /\ InstallStart(p)
    \/ \E p \in Procs : Alone(p) /\ InstallCheck(p)
    \/ \E p \in Procs : Alone(p) /\ InstallInsert(p)
    \/ \E p \in Procs : Alone(p) /\ InstallUpdateQr(p)
    \/ \E p \in Procs : Alone(p) /\ InstallFind(p)
    \/ \E p \in Procs : Alone(p) /\ Budget /\ UpdateStart(p)
    \/ \E p \in Procs : Alone(p) /\ UpdateInstallation(p)
    \/ \E p \in Procs : Alone(p) /\ UpdateQr(p)
    \/ \E p \in Procs : Alone(p) /\ UpdateFind(p)
    \/ \E p \in Procs : Alone(p) /\ Fail(p)
    \/ Tick

\* requests arrive one after the other: each runs to its response before the
\* next one starts
SeqSpec == Init /\ [][SeqNext]_vars

\* code generation, installation and status updates overlapping freely, none
\* failing, MaxLongRequests requests per run
UpdateNext ==
    \/ \E p \in Procs : GenStart(p)
    \/ \E p \in Procs : GenInsert(p)
    \/ \E p \in Procs : GenUpdateBatch(p)
    \/ \E p \in Procs : InstallStart(p)
    \/ \E p \in Procs : InstallCheck(p)
    \/ \E p \in Procs : InstallInsert(p)
    \/ \E p \in Procs : InstallUpdateQr(p)
    \/ \E p \in Procs : InstallFind(p)
    \/ \E p \in Procs : UpdateStart(p)
    \/ \E p \in Procs : UpdateInstallation(p)
    \/ \E p \in Procs : UpdateQr(p)
    \/ \E p \in Procs : UpdateFind(p)

UpdateSpec == Init /\ [][UpdateNext]_vars

\* every request that writes a QR code, an installation or an event, one
\* request at a time, MaxLongRequests requests per run
EventNext ==
    \/ \E p \in Procs : Alone(p) /\ GenStart(p)
    \/ \E p \in Procs : GenInsert(p)
    \/ \E p \in Procs : GenUpdateBatch(p)
    \/ \E p \in Procs : Alone(p) /\ VerifyStart(p)
    \/ \E p \in Procs : VerifyFind(p)
    \/ \E p \in Procs : Alone(p) /\ UpdateStart(p)
    \/ \E p \in Procs : UpdateInstallation(p)
    \/ \E p \in Procs : UpdateQr(p)
    \/ \E p \in Procs : UpdateFind(p)
    \/ \E p \in Procs : Alone(p) /\ InstallStart(p)
    \/ \E p \in Procs : InstallCheck(p)
    \/ \E p \in Procs : InstallInsert(p)
    \/ \E p \in Procs : InstallUpdateQr(p)
    \/ \E p \in Procs : InstallFind(p)
    \/ \E p \in Procs : Alone(p) /\ ScanStart(p)
    \/ \E p \in Procs : ScanInsertLog(p)
    \/ \E p \in Procs : ScanUpdateQr(p)
    \/ \E p \in Procs : Alone(p) /\ InspectStart(p)
    \/ \E p \in Procs : InspectInsert(p)
    \/ \E p \in Procs : InspectFind(p)
    \/ \E p \in Procs : Alone(p) /\ CompleteStart(p)
    \/ \E p \in Procs : CompleteUpdate(p)
    \/ \E p \in Procs : CompleteFind(p)
    \/ \E p \in Procs : Alone(p) /\ BulkStart(p)
    \/ \E p \in Procs : BulkInsert(p)
    \/ \E p \in Procs : BulkBatchRecord(p)
    \/ \E p \in Procs : Alone(p) /\ MaintainStart(p)
    \/ \E p \in Procs : MaintainInsert(p)
    \/ \E p \in Procs : MaintainFind(p)
    \/ \E p \in Procs : Alone(p) /\ QualityStart(p)
    \/ \E p \in Procs : QualityUpdate(p)
    \/ \E p \in Procs : QualityFind(p)
    \/ \E p \in Procs : Alone(p) /\ BulkMaintStart(p)
    \/ \E p \in Procs : BulkMaintZone(p)
    \/ \E p \in Procs : BulkMaintFind(p)
    \/ \E p \in Procs : BulkMaintInsert(p)
    \/ \E p \in Procs : BulkMaintBatchRecord(p)

EventSpec == Init /\ [][EventNext]_vars

\* code generation and inspections overlapping freely, MaxLongRequests
\* requests per run
InspNext ==
    \/ \E p \in Procs : GenStart(p)
    \/ \E p \in Procs : GenInsert(p)
    \/ \E p \in Procs : GenUpdateBatch(p)
    \/ \E p \in Procs : InspectStart(p)
    \/ \E p \in Procs : InspectInsert(p)
    \/ \E p \in Procs : InspectFind(p)
    \/ \E p \in Procs : CompleteStart(p)
    \/ \E p \in Procs : CompleteUpdate(p)
    \/ \E p \in Procs : CompleteFind(p)
    \/ \E p \in Procs : BulkStart(p)
    \/ \E p \in Procs : BulkInsert(p)
    \/ \E p \in Procs : BulkBatchRecord(p)
    \/ \E p \in Procs : Fail(p)

InspSpec == Init /\ [][InspNext]_vars

\* code generation and scanning, requests overlapping freely
ScanNext ==
    \/ \E p \in Procs : Budget /\ GenStart(p)
    \/ \E p \in Procs : GenInsert(p)
    \/ \E p \in Procs : GenUpdateBatch(p)
    \/ \E p \in Procs : Budget /\ ScanStart(p)
    \/ \E p \in Procs : ScanInsertLog(p)
    \/ \E p \in Procs : ScanUpdateQr(p)
    \/ \E p \in Procs : Fail(p)
    \/ Tick

ScanSpec == Init /\ [][ScanNext]_vars

\* one direct call of a utility, at any second
UtilNext == CallExtract \/ CallValidate \/ Tick

UtilSpec == Init /\ [][UtilNext]_vars

----------------------------------------------------------------------------
(* Properties *)

Done(p) == req[p].pc = "done"
Quiet == \A p \in Procs : Free(p)

\* the installations bound to QR code documents that exist
Bound == {k \in 1..Len(installations) : QrExists(installations[k].qrCodeId)}

\* C1: once every request has been answered and none was interrupted, a QR
\* code that has an installation has the installation's status.
C1_BoundStatusesAgree ==
    (Quiet /\ faults = 0) =>
        \A k \in Bound : qr_codes[installations[k].qrCodeId].status = installations[k].status

\* C2: an updateStatus request that was interrupted (answered 500) leaves the
\* installation and its QR code with the statuses they had when it started.
C2_InterruptedUpdateChangesNothing ==
    \A p \in Procs :
        (Done(p) /\ req[p].op = "update" /\ req[p].result.code = 500) =>
            /\ installations[req[p].iid].status = req[p].prev.inst
            /\ QrStatus(req[p].qid) = req[p].prev.qr

\* install requests that both found no installation at their existence check
PassedCheck(p) ==
    /\ Done(p) /\ req[p].op = "install" /\ req[p].qid # 0
    /\ req[p].result.detail # "QR code is already installed"

\* C3: no QR code ever has two installations, and of two install requests for
\* one QR code that both passed the existence check, neither interrupted,
\* exactly one is answered 200.
C3_OneInstallWins ==
    /\ \A q \in 1..Len(qr_codes) : Cardinality(InstallationOf(q)) <= 1
    /\ \A p1, p2 \in Procs :
          (/\ p1 # p2 /\ faults = 0
           /\ PassedCheck(p1) /\ PassedCheck(p2)
           /\ req[p1].qid = req[p2].qid)
          => (req[p1].result.code = 200) # (req[p2].result.code = 200)

C3_Witness ==
    /\ faults = 0
    /\ PassedCheck(1) /\ PassedCheck(2) /\ req[1].qid = req[2].qid
    /\ req[1].result.code # req[2].result.code
    /\ Cardinality(InstallationOf(req[1].qid)) = 1

\* C4: an install request for a QR code that already has an installation,
\* whether it saw it at the existence check or lost the race at the insert, is
\* answered with the explicit conflict, never the generic failure.
C4_SecondInstallIsConflict ==
    \A p \in Procs :
        (/\ Done(p) /\ req[p].op = "install" /\ req[p].qid # 0 /\ faults = 0
         /\ req[p].result.code # 200)
        => req[p].result.detail = "QR code is already installed"

\* C5: an installation is created only for a QR code whose status is verified.
C5_InstallOnlyVerified ==
    [][\A k \in 1..Len(installations') :
          k > Len(installations) =>
              QrStatus(installations'[k].qrCodeId) = "verified"]_vars

\* the lifecycle's legal transitions
LegalEdges ==
    {<<"generated", "printed">>, <<"printed", "verified">>,
     <<"verified", "installed">>, <<"installed", "in_service">>,
     <<"in_service", "maintenance_due">>, <<"maintenance_due", "replaced">>,
     <<"maintenance_due", "retired">>,
     <<"generated", "rejected">>, <<"generated", "needs_reprint">>,
     <<"printed", "rejected">>, <<"printed", "needs_reprint">>,
     <<"verified", "rejected">>, <<"needs_reprint", "printed">>,
     <<"installed", "retired">>, <<"in_service", "retired">>}

\* C6: every change of a QR code's status follows a legal transition.
C6_OnlyLegalTransitions ==
    [][\A k \in 1..Len(qr_codes) :
          qr_codes'[k].status # qr_codes[k].status =>
              <<qr_codes[k].status, qr_codes'[k].status>> \in LegalEdges]_vars

\* C7: a QR code whose status is retired or rejected keeps it for ever.
C7_TerminalIsFinal ==
    [][\A k \in 1..Len(qr_codes) :
          qr_codes[k].status \in {"retired", "rejected"} =>
              qr_codes'[k].status = qr_codes[k].status]_vars

\* C8: no two QR code documents have the same code string.
C8_CodeStringsUnique ==
    \A j, k \in 1..Len(qr_codes) : j # k => qr_codes[j].qrCode # qr_codes[k].qrCode

\* two codes of one batch are stored and the index has refused a third insert
C8_Witness ==
    /\ faults = 0
    /\ \E j, k \in 1..Len(qr_codes) :
          j # k /\ qr_codes[j].fittingBatchId = qr_codes[k].fittingBatchId
    /\ \E p \in Procs :
          Done(p) /\ req[p].op = "generate" /\ req[p].result.code = 500

\* C9: no two QR code documents have the same batch and sequence number.
C9_BatchSequenceUnique ==
    \A j, k \in 1..Len(qr_codes) :
        j # k => <<qr_codes[j].fittingBatchId, qr_codes[j].sequenceNumber>>
                 # <<qr_codes[k].fittingBatchId, qr_codes[k].sequenceNumber>>

SequencesOf(b) == {qr_codes[k].sequenceNumber : k \in CodesOfBatch(b)}

\* C10: when a generate-batch request for N codes on a batch that had none is
\* answered 200, the batch has exactly N documents, all generated, numbered
\* 1..N; and in every state the sequence numbers of a batch are 1..k, no gap.
C10_SequenceContiguous ==
    /\ \A p \in Procs :
          (/\ Done(p) /\ req[p].op = "generate" /\ req[p].result.code = 200
           /\ req[p].had = 0)
          => /\ Cardinality(CodesOfBatch(req[p].batch)) = req[p].quantity
             /\ SequencesOf(req[p].batch) = 1..req[p].quantity
             /\ \A k \in CodesOfBatch(req[p].batch) : qr_codes[k].status = "generated"
    /\ \A b \in BatchIds : \E n \in 0..MaxCodes : SequencesOf(b) = 1..n

C10_Witness ==
    \E p \in Procs :
        /\ Done(p) /\ req[p].op = "generate" /\ req[p].result.code = 200
        /\ req[p].had = 0 /\ req[p].quantity = 2
        /\ SequencesOf(req[p].batch) = {1, 2}

\* the sequence numbers of the documents a generate-batch call has inserted
SequencesMade(p) == {qr_codes[k].sequenceNumber : k \in req[p].made}

Contiguous(S) == \A a, b \in S : \A n \in a..b : n \in S

\* C11: while two generate-batch calls for one batch are both in flight, the
\* sequence numbers each has inserted form a contiguous block, and the two
\* blocks have no number in common.
C11_BlocksDisjoint ==
    \A p1, p2 \in Procs :
        (/\ p1 # p2 /\ InFlight(p1) /\ InFlight(p2)
         /\ req[p1].op = "generate" /\ req[p2].op = "generate"
         /\ req[p1].batch = req[p2].batch)
        => /\ Contiguous(SequencesMade(p1)) /\ Contiguous(SequencesMade(p2))
           /\ SequencesMade(p1) \cap SequencesMade(p2) = {}

\* C12: when a generate-batch call has failed (answered 500), none of the
\* documents it inserted before the failure is still stored with status
\* generated.
C12_FailedGenerateLeavesNothing ==
    \A p \in Procs :
        (Done(p) /\ req[p].op = "generate" /\ req[p].result.code = 500)
        => \A k \in req[p].made : ~(QrExists(k) /\ qr_codes[k].status = "generated")

\* C13: a generate-batch request whose quantity is outside 1..10000 or whose
\* batch id matches no batch is answered 400 or 404 at once, and the step that
\* answers it changes no QR code document and no batch.
C13_RejectedGenerateChangesNothing ==
    [][\A p \in Procs :
          (/\ req'[p] # req[p] /\ Free(p)
           /\ req'[p].op = "generate" /\ req'[p].result.code # 403
           /\ \/ req'[p].quantity \notin 1..MaxQuantity
              \/ req'[p].batch \notin DOMAIN batches)
          => /\ req'[p].pc = "done" /\ req'[p].result.code \in {400, 404}
             /\ qr_codes' = qr_codes /\ batches' = batches]_vars

\* both rejections answered while a code is stored
C13_Witness ==
    /\ Len(qr_codes) > 0
    /\ \E p, q \in Procs :
          /\ Done(p) /\ req[p].op = "generate" /\ req[p].result.code = 400
          /\ req[p].quantity = MaxQuantity + 1
          /\ Done(q) /\ req[q].op = "generate" /\ req[q].result.code = 404
          /\ req[q].batch = "bx"

\* C14: extracting from a generated code string reports a valid code with the
\* batch id and the sequence number it was generated from.
C14_ExtractRecoversGenerate ==
    call.fn = "extract" =>
        /\ call.out.is_valid
        /\ call.out.batch_id = BatchChars(call.batch)
        /\ call.out.sequence_number = call.seq

\* C15: validate_qr_code_data is true exactly for the strings of 4 parts whose
\* first part is the prefix, third part is 6 digits and fourth part is 8
\* characters.
C15_ValidateIffWellFormed ==
    call.fn = "validate" =>
        (call.out <=>
            /\ Len(call.parts) = 4
            /\ call.parts[1] = <<"Q", "R", "T", "F">>
            /\ Len(call.parts[3]) = 6
            /\ \A k \in 1..6 : call.parts[3][k] \in DecimalChars
            /\ Len(call.parts[4]) = 8)

\* a well-formed string with batch part b1 was accepted
C15_Witness ==
    /\ call.fn = "validate" /\ call.out
    /\ call.parts[2] = <<"b", "1">>

\* C16: the step that receives a scan request whose code string fails format
\* validation answers it at once without querying qr_codes, appends no scan
\* log and changes no QR code document.
C16_MalformedScanNoLookup ==
    [][\A p \in Procs :
          (/\ req'[p] # req[p] /\ Free(p)
           /\ req'[p].op = "scan" /\ req'[p].result.code # 403
           /\ ~validate_qr_code_data(req'[p].code))
          => /\ req'[p].pc = "done" /\ ~req'[p].looked
             /\ scan_logs' = scan_logs /\ qr_codes' = qr_codes]_vars

\* C17: every stored installation has coordinates, in range.
C17_StoredCoordinatesInRange ==
    \A k \in 1..Len(installations) :
        validate_gps_coordinates(installations[k].installationCoordinates)

\* C18: an install request that failed (answered 500) after its insert has
\* left no installation in status installed whose QR code is not installed.
C18_FailedInstallLeavesNothing ==
    \A p \in Procs :
        (Done(p) /\ req[p].op = "install" /\ req[p].result.code = 500
         /\ InstExists(req[p].iid))
        => ~(/\ installations[req[p].iid].status = "installed"
             /\ QrStatus(req[p].qid) # "installed")

\* C19: once two updateStatus requests for one installation with different
\* target statuses have both been answered 200, the installation and its QR
\* code have the same status.
C19_ConcurrentUpdatesAgree ==
    \A p1, p2 \in Procs :
        (/\ p1 # p2 /\ Done(p1) /\ Done(p2)
         /\ req[p1].op = "update" /\ req[p2].op = "update"
         /\ req[p1].result.code = 200 /\ req[p2].result.code = 200
         /\ req[p1].iid = req[p2].iid /\ req[p1].status # req[p2].status)
        => installations[req[p1].iid].status = QrStatus(req[p1].qid)

\* C20: every inspection is created in_progress, its status changes only from
\* in_progress to completed, and its recommendation changes only with that
\* change.
C20_InspectionLifecycle ==
    [][/\ \A n \in 1..Len(inspections') :
            n > Len(inspections) => inspections'[n].status = "in_progress"
       /\ \A n \in 1..Len(inspections) :
            inspections'[n] # inspections[n] =>
                /\ inspections[n].status = "in_progress"
                /\ inspections'[n].status = "completed"]_vars

\* C21: every stored inspection, maintenance record and scan log names the id
\* of a stored QR code.
C21_EventsReferenceExistingCode ==
    /\ \A n \in 1..Len(inspections) : QrExists(inspections[n].qrCodeId)
    /\ \A n \in 1..Len(maintenance_records) : QrExists(maintenance_records[n].qrCodeId)
    /\ \A n \in 1..Len(scan_logs) : QrExists(scan_logs[n].qrCodeId)

\* the fields that identify a QR code document
Identity(doc) == <<doc.qrCode, doc.fittingBatchId, doc.sequenceNumber>>

\* C22: no step removes a QR code document or changes the code string, the
\* batch id or the sequence number of one that exists.
C22_IdentityImmutable ==
    [][/\ Len(qr_codes') >= Len(qr_codes)
       /\ \A k \in 1..Len(qr_codes) : Identity(qr_codes'[k]) = Identity(qr_codes[k])]_vars

\* a code that was installed, moved to in_service and scanned still has the
\* identity it was generated with
C22_Witness ==
    \E k \in 1..Len(qr_codes) :
        /\ qr_codes[k].status = "in_service"
        /\ qr_codes[k].lastScannedBy # ""
        /\ InstallationOf(k) # {}
        /\ qr_codes[k].sequenceNumber = 1

\* C23: a batch never owns more QR codes than its quantity.
C23_BatchWithinQuantity ==
    \A b \in DOMAIN batches : Cardinality(CodesOfBatch(b)) <= batches[b].quantity

\* C24: no QR code is created for a batch whose status is shipped or rejected.
C24_NoCodesForClosedBatch ==
    [][\A k \in (Len(qr_codes) + 1)..Len(qr_codes') :
          batches[qr_codes'[k].fittingBatchId].status \notin {"shipped", "rejected"}]_vars

\* C25: every stored installation names a zone that exists.
C25_InstallationZoneExists ==
    \A k \in 1..Len(installations) : installations[k].zoneId \in ZoneIds

\* the ids of the scan logs of a QR code, and the one appended last
LogsOf(k) == {n \in 1..Len(scan_logs) : scan_logs[n].qrCodeId = k}
LastLogOf(k) == CHOOSE n \in LogsOf(k) : \A m \in LogsOf(k) : m <= n

\* C26: when no request is in flight and none has failed, the last-scan pointer
\* of every scanned QR code names the scanner of the scan log appended last for
\* that code.
C26_LastScanPointsAtLastLog ==
    (Quiet /\ faults = 0) =>
        \A k \in 1..Len(qr_codes) :
            LogsOf(k) # {} => qr_codes[k].lastScannedBy = scan_logs[LastLogOf(k)].scannedBy

\* C27: the step that answers a verify request whose id matches no QR code
\* answers with a client error and leaves qr_codes unchanged.
C27_VerifyMissingIsClientError ==
    [][\A p \in Procs :
          (/\ req[p].op = "verify" /\ req[p].pc = "ver_find"
           /\ req'[p].pc = "done" /\ faults' = faults
           /\ ~QrExists(req[p].qid))
          => /\ req'[p].result.code \in 400..499
             /\ qr_codes' = qr_codes]_vars

\* C28: whenever no request is in flight, each batch's qrCodesGenerated equals
\* the number of QR codes stored for the batch.
C28_CounterMatchesCodes ==
    Quiet => \A b \in DOMAIN batches :
                batches[b].qrCodesGenerated = Cardinality(CodesOfBatch(b))

\* the requests that append or amend an event
EventOps == {"scan", "inspect", "complete", "maintain", "quality"}

\* C29: a step of scan, create-inspection, complete-inspection,
\* create-maintenance or quality-check leaves every installation unchanged and
\* changes nothing of a QR code but its last-scan fields.
C29_EventsLeaveLifecycle ==
    [][(\E p \in Procs : req'[p] # req[p] /\ req'[p].op \in EventOps)
        => /\ installations' = installations
           /\ Len(qr_codes') = Len(qr_codes)
           /\ \A k \in 1..Len(qr_codes) :
                [qr_codes'[k] EXCEPT !.lastScannedBy = qr_codes[k].lastScannedBy]
                    = qr_codes[k]]_vars

\* an installed code was scanned and inspected and is still installed
C29_Witness ==
    \E k \in 1..Len(qr_codes) :
        /\ InstallationOf(k) # {}
        /\ qr_codes[k].status = "installed"
        /\ LogsOf(k) # {}
        /\ \E n \in 1..Len(inspections) :
              inspections[n].qrCodeId = k /\ inspections[n].status = "in_progress"

\* two complete requests for one inspection have both been answered 200
TwoCompletesSucceeded ==
    \E p1, p2 \in Procs :
        /\ p1 # p2
        /\ req[p1].op = "complete" /\ req[p2].op = "complete"
        /\ Done(p1) /\ Done(p2)
        /\ req[p1].insp = req[p2].insp
        /\ req[p1].result.code = 200 /\ req[p2].result.code = 200

\* C30: of the complete requests for one inspection at most one succeeds, and
\* a completed inspection, its recommendation included, is never written again.
C30_OneCompleteWins ==
    [][/\ ~TwoCompletesSucceeded'
       /\ \A n \in 1..Len(inspections) :
            inspections[n].status = "completed" => inspections'[n] = inspections[n]]_vars

====
